---- MODULE Spec2Model ----
(***************************************************************************)
(* Model of the STM32F1 firmware extractor (main.py, openocd.py).          *)
(*                                                                         *)
(* The program drives an OpenOCD Tcl session: it probes how many external  *)
(* interrupt lines the target implements, then, for every requested word,  *)
(* relocates the vector table so that the word becomes a vector entry,     *)
(* forces the matching exception and reads the word back from PC.          *)
(*                                                                         *)
(* 32-bit quantities that do not fit the model checker's integers are      *)
(* kept as a pair <<high half-word, low half-word>>.                       *)
(***************************************************************************)
EXTENDS Integers, Sequences, FiniteSets, TLC

(***************************************************************************)
(* Bounds of the model.                                                    *)
(***************************************************************************)
\* Largest number of leading external interrupt lines a modelled target implements.
MaxPrefix == 17
\* Largest word index of a modelled start address (start = 4 * index).
MaxStartWord == 17
\* Largest modelled request length, in words.
MaxLength == 2
\* Largest gap position of a target that implements a line beyond its gap.
MaxGap == 2
\* Largest word index of a start address of an extraction with a given count.
MaxExtractWord == 80
\* Largest address and exception count the mapping is applied to directly.
MaxAddress == 1100
MaxNumExc == 70

(***************************************************************************)
(* Constants of main.py.                                                   *)
(***************************************************************************)
W32(hi, lo) == <<hi, lo>>

Register ==
    [R0 |-> 0, R1 |-> 1, R2 |-> 2, R3 |-> 3, R4 |-> 4, R5 |-> 5, R6 |-> 6,
     R7 |-> 7, R8 |-> 8, R9 |-> 9, R10 |-> 10, R11 |-> 11, R12 |-> 12,
     SP |-> 13, LR |-> 14, PC |-> 15, PSR |-> 16]

WORD_SIZE == 4

\* 0x20000200
INITIAL_SP == W32(8192, 512)
\* 0xe000ed08
VTOR_ADDR == W32(57344, 60680)
\* 0xe000ed04
ICSR_ADDR == W32(57344, 60676)
\* 0xe000ed24
SHCSR_ADDR == W32(57344, 60708)
\* 0xe000e100
NVIC_ISER0_ADDR == W32(57344, 57600)
\* 0xe000e200
NVIC_ISPR0_ADDR == W32(57344, 57856)
\* 0xe000edfc
DEMCR_ADDR == W32(57344, 60924)
\* 0xe0000000
MEM_XN_ADDR == W32(57344, 0)

\* 0x20000000, 0x20000002, 0x20000004, 0x20000006
SVC_INST_ADDR == W32(8192, 0)
NOP_INST_ADDR == W32(8192, 2)
LDR_INST_ADDR == W32(8192, 4)
UNDEF_INST_ADDR == W32(8192, 6)

\* 0x01000000, the Thumb bit of the PSR
THUMB_PSR == W32(256, 0)
\* 0xffffff00, the invalid load address seeded into R6
INVALID_LOAD_ADDR == W32(65535, 65280)

\* The inaccessible numbers without the reserved slot 13.
INACCESSIBLE_WITHOUT_13 == {0, 1, 7, 8, 9, 10}

INACCESSIBLE_EXC_NUMBERS == {0, 1, 7, 8, 9, 10, 13}

\* A loop bound that lets the prober go one line too far.
MAX_EXT_INTERRUPTS_PLUS_ONE == 496 + 1

\* range(0, 496): the architectural number of external interrupts
MAX_EXT_INTERRUPTS == 496

\* What read_register returns when the reply holds no value.
None == -1
\* --value skip
SKIP == -2

(***************************************************************************)
(* 32-bit helpers.                                                         *)
(***************************************************************************)
\* A small non-negative integer as a 32-bit word.
ToWord(n) == W32(n \div 65536, n % 65536)

\* 1 << n, for n in 0..31.
Bit(n) == IF n < 16 THEN W32(0, 2 ^ n) ELSE W32(2 ^ (n - 16), 0)

\* address + offset for an offset that does not carry out of the low half.
AddOffset(word, offset) == W32(word[1], word[2] + offset)

(***************************************************************************)
(* Pure functions of main.py.                                              *)
(***************************************************************************)
\* align that rounds down to half the requested alignment.
align_half(address, base) == address - (address % (base \div 2))

\* align(address, base)
align(address, base) == address - (address % base)

\* int(math.log(n, 2)) for n >= 1
RECURSIVE Log2Floor(_)
Log2Floor(n) == IF n < 2 THEN 0 ELSE 1 + Log2Floor(n \div 2)

\* table_size = 2 ** int(math.log(num_exceptions, 2))
TableSize(num_exceptions) == 2 ^ Log2Floor(num_exceptions)

\* The wrap-around test without the test of the table's alignment.
WrapAround_unaligned(vtor_address, exception_number, table_size, num_exceptions) ==
    (exception_number + table_size) < num_exceptions

\* The wrap-around test with an off-by-one comparison of the exception count.
WrapAround_inclusive(vtor_address, exception_number, table_size, num_exceptions) ==
    /\ (vtor_address % (table_size * 2 * WORD_SIZE)) # 0
    /\ (exception_number + table_size) <= num_exceptions

\* The wrap-around test with the test of the table's alignment inverted.
WrapAround_inverted(vtor_address, exception_number, table_size, num_exceptions) ==
    /\ (vtor_address % (table_size * 2 * WORD_SIZE)) = 0
    /\ (exception_number + table_size) < num_exceptions

\* The wrap-around test that compares the number before the wrap-around.
WrapAround_no_offset(vtor_address, exception_number, table_size, num_exceptions) ==
    /\ (vtor_address % (table_size * 2 * WORD_SIZE)) # 0
    /\ exception_number < num_exceptions

\* The wrap-around test of calculate_vtor_exc.
WrapAround(vtor_address, exception_number, table_size, num_exceptions) ==
    /\ (vtor_address % (table_size * 2 * WORD_SIZE)) # 0
    /\ (exception_number + table_size) < num_exceptions

\* calculate_vtor_exc(address, num_exceptions) -> (vtor_address, exception_number)
calculate_vtor_exc(address, num_exceptions) ==
    LET table_size == TableSize(num_exceptions)
        vtor_addr == align(address, table_size * WORD_SIZE)
        exc == (address - vtor_addr) \div WORD_SIZE
    IN  IF exc \notin INACCESSIBLE_EXC_NUMBERS
        THEN <<vtor_addr, exc>>
        ELSE IF WrapAround(vtor_addr, exc, table_size, num_exceptions)
             THEN <<vtor_addr, exc + table_size>>
             ELSE <<vtor_addr, exc>>

\* t_bit = (xpsr >> 24) & 0x1
TBit(xpsr) == (xpsr \div (2 ^ 24)) % 2

\* pc | t_bit, for t_bit in {0, 1}
OrBit0(pc, t_bit) == IF pc % 2 = 1 THEN pc ELSE pc + t_bit

\* The value recover_pc computes from the two registers it read.
RecoverValue(pc, xpsr) == OrBit0(pc, TBit(xpsr))

\* exception_number = xpsr & 0x1ff
ExceptionField(xpsr) == xpsr % 512

(***************************************************************************)
(* Commands sent through the OpenOcd object.                               *)
(***************************************************************************)
\* openocd.send(cmd)
Send(cmd) == [op |-> "send", arg |-> cmd, val |-> 0, width |-> 0]
\* openocd.step()
Step == Send("step")
\* openocd.halt()
Halt == Send("halt")
\* openocd.write_memory(address, [value], word_length)
WriteMemory(address, value, word_length) ==
    [op |-> "write_memory", arg |-> address, val |-> value, width |-> word_length]
\* openocd.write_register(register, value)
WriteRegister(register, value) ==
    [op |-> "write_register", arg |-> register, val |-> value, width |-> 0]
\* openocd.read_register(register)
ReadRegister(register) ==
    [op |-> "read_register", arg |-> register, val |-> 0, width |-> 0]

\* The exception numbers generate_exception has a branch for.
Handled(exception_number) ==
    \/ exception_number \in {2, 3, 4, 5, 6, 11, 12, 14, 15}
    \/ exception_number >= 16

\* The peripheral writes with the external line taken as the exception number.
PeripheralWrites_line_is_number(exception_number) ==
    CASE exception_number = 2 -> <<WriteMemory(ICSR_ADDR, Bit(31), 32)>>
      [] exception_number = 3 -> <<>>
      [] exception_number = 4 -> <<WriteMemory(SHCSR_ADDR, Bit(16), 32)>>
      [] exception_number = 5 -> <<WriteMemory(SHCSR_ADDR, Bit(17), 32)>>
      [] exception_number = 6 -> <<WriteMemory(SHCSR_ADDR, Bit(18), 32)>>
      [] exception_number = 11 -> <<>>
      [] exception_number = 12 -> <<WriteMemory(DEMCR_ADDR, Bit(17), 32)>>
      [] exception_number = 14 -> <<WriteMemory(ICSR_ADDR, Bit(28), 32)>>
      [] exception_number = 15 -> <<WriteMemory(ICSR_ADDR, Bit(26), 32)>>
      [] exception_number >= 16 ->
            LET ext_interrupt_number == exception_number
                register_offset == (ext_interrupt_number \div 32) * WORD_SIZE
                value == Bit(ext_interrupt_number % 32)
            IN  <<WriteMemory(AddOffset(NVIC_ISER0_ADDR, register_offset), value, 32),
                  WriteMemory(AddOffset(NVIC_ISPR0_ADDR, register_offset), value, 32)>>
      [] OTHER -> <<>>

\* The peripheral writes of generate_exception's branch, in program order.
PeripheralWrites(exception_number) ==
    CASE exception_number = 2 -> <<WriteMemory(ICSR_ADDR, Bit(31), 32)>>
      [] exception_number = 3 -> <<>>
      [] exception_number = 4 -> <<WriteMemory(SHCSR_ADDR, Bit(16), 32)>>
      [] exception_number = 5 -> <<WriteMemory(SHCSR_ADDR, Bit(17), 32)>>
      [] exception_number = 6 -> <<WriteMemory(SHCSR_ADDR, Bit(18), 32)>>
      [] exception_number = 11 -> <<>>
      [] exception_number = 12 -> <<WriteMemory(DEMCR_ADDR, Bit(17), 32)>>
      [] exception_number = 14 -> <<WriteMemory(ICSR_ADDR, Bit(28), 32)>>
      [] exception_number = 15 -> <<WriteMemory(ICSR_ADDR, Bit(26), 32)>>
      [] exception_number >= 16 ->
            LET ext_interrupt_number == exception_number - 16
                register_offset == (ext_interrupt_number \div 32) * WORD_SIZE
                value == Bit(ext_interrupt_number % 32)
            IN  <<WriteMemory(AddOffset(NVIC_ISER0_ADDR, register_offset), value, 32),
                  WriteMemory(AddOffset(NVIC_ISPR0_ADDR, register_offset), value, 32)>>
      [] OTHER -> <<>>

\* The registers dict without the safe stack pointer.
ExceptionRegisters_no_sp(exception_number) ==
    (CASE exception_number = 5 -> <<WriteRegister(Register.PC, LDR_INST_ADDR),
                                    WriteRegister(Register.R6, INVALID_LOAD_ADDR)>>
       [] exception_number \in {3, 6} -> <<WriteRegister(Register.PC, UNDEF_INST_ADDR)>>
       [] exception_number = 4 -> <<WriteRegister(Register.PC, MEM_XN_ADDR)>>
       [] exception_number = 11 -> <<WriteRegister(Register.PC, SVC_INST_ADDR)>>
       [] OTHER -> <<WriteRegister(Register.PC, NOP_INST_ADDR)>>)
    \o <<WriteRegister(Register.PSR, THUMB_PSR)>>

\* The registers dict of generate_exception, in insertion order.
ExceptionRegisters(exception_number) ==
    (CASE exception_number = 2 -> <<WriteRegister(Register.PC, NOP_INST_ADDR)>>
       [] exception_number = 3 -> <<WriteRegister(Register.PC, UNDEF_INST_ADDR)>>
       [] exception_number = 4 -> <<WriteRegister(Register.PC, MEM_XN_ADDR)>>
       [] exception_number = 5 -> <<WriteRegister(Register.PC, LDR_INST_ADDR),
                                    WriteRegister(Register.R6, INVALID_LOAD_ADDR)>>
       [] exception_number = 6 -> <<WriteRegister(Register.PC, UNDEF_INST_ADDR)>>
       [] exception_number = 11 -> <<WriteRegister(Register.PC, SVC_INST_ADDR)>>
       [] exception_number = 12 -> <<WriteRegister(Register.PC, NOP_INST_ADDR)>>
       [] exception_number = 14 -> <<WriteRegister(Register.PC, NOP_INST_ADDR)>>
       [] exception_number = 15 -> <<WriteRegister(Register.PC, NOP_INST_ADDR)>>
       [] exception_number >= 16 -> <<WriteRegister(Register.PC, NOP_INST_ADDR)>>
       [] OTHER -> <<>>)
    \o <<WriteRegister(Register.PSR, THUMB_PSR),
         WriteRegister(Register.SP, INITIAL_SP)>>

\* generate_exception that steps before it writes the registers.
generate_exception_step_first(vt_address, exception_number) ==
    <<Send("reset halt"), WriteMemory(VTOR_ADDR, ToWord(vt_address), 32)>>
    \o (IF Handled(exception_number)
        THEN PeripheralWrites(exception_number)
             \o <<Step>>
             \o ExceptionRegisters(exception_number)
        ELSE <<>>)

\* Every command generate_exception(openocd, vt_address, exception_number)
\* sends; an exception number without a branch exits after the VTOR write.
generate_exception(vt_address, exception_number) ==
    <<Send("reset halt"), WriteMemory(VTOR_ADDR, ToWord(vt_address), 32)>>
    \o (IF Handled(exception_number)
        THEN PeripheralWrites(exception_number)
             \o ExceptionRegisters(exception_number)
             \o <<Step>>
        ELSE <<>>)

\* The probe iteration that relies on the previous iteration's reset.
ProbeCommands_no_reset(line) ==
    LET register_offset == (line \div 32) * WORD_SIZE
        value == Bit(line % 32)
    IN  (IF line = 0 THEN <<Send("reset init")>> ELSE <<>>)
        \o <<WriteMemory(AddOffset(NVIC_ISER0_ADDR, register_offset), value, 32),
             WriteMemory(AddOffset(NVIC_ISPR0_ADDR, register_offset), value, 32),
             WriteRegister(Register.PC, NOP_INST_ADDR),
             WriteRegister(Register.PSR, THUMB_PSR),
             WriteRegister(Register.SP, INITIAL_SP),
             Step,
             ReadRegister(Register.PSR)>>

\* The commands of one iteration of determine_num_ext_interrupts, up to
\* and including the PSR read.
ProbeCommands(line) ==
    LET register_offset == (line \div 32) * WORD_SIZE
        value == Bit(line % 32)
    IN  <<Send("reset init"),
          WriteMemory(AddOffset(NVIC_ISER0_ADDR, register_offset), value, 32),
          WriteMemory(AddOffset(NVIC_ISPR0_ADDR, register_offset), value, 32),
          WriteRegister(Register.PC, NOP_INST_ADDR),
          WriteRegister(Register.PSR, THUMB_PSR),
          WriteRegister(Register.SP, INITIAL_SP),
          Step,
          ReadRegister(Register.PSR)>>

\* The commands main sends before probing: halt, unmask, write the scratch code.
SetupCommands ==
    <<Halt,
      Send("cortex_m maskisr off"),
      WriteMemory(SVC_INST_ADDR, ToWord(57088), 16),
      WriteMemory(NOP_INST_ADDR, ToWord(48896), 16),
      WriteMemory(LDR_INST_ADDR, ToWord(31605), 16),
      WriteMemory(UNDEF_INST_ADDR, ToWord(65535), 16)>>

(***************************************************************************)
(* Inputs and target replies.                                              *)
(***************************************************************************)
\* Start addresses: every word address up to the bound, and unaligned ones.
StartAddresses == {WORD_SIZE * w : w \in 0..MaxStartWord} \cup {2, 18, 128}

\* --value: skip, or a literal.
SkipValues == {SKIP, 195936478}

\* Targets: lines 0..p-1 implemented, and for the first few p also targets
\* that implement a line beyond the gap at p.
Targets ==
    {0..(p - 1) : p \in 0..MaxPrefix}
    \cup {(0..(p - 1)) \cup {p + 1, p + 3} : p \in 0..MaxGap}

\* Register values a target replies with after a reset or a step.
SPReplies == {536891392}
PCReplies == {256, 257}
XPSRReplies == {3, 16777219, 50331652}

\* The PSR of the target after the probe step for an external line.
XpsrAfterProbe(line, lines) ==
    IF line \in lines THEN 16777216 + line + 16 ELSE 16777216

(***************************************************************************)
(* State.                                                                  *)
(***************************************************************************)
VARIABLES
    start_address,      \* int(args.address, 0)
    length,             \* int(args.length, 0)
    skip_value,         \* args.value
    implemented,        \* the external lines the target implements
    pc,                 \* position of the program
    i,                  \* loop variable of determine_num_ext_interrupts
    count,              \* count of determine_num_ext_interrupts
    num_exceptions,     \* 16 + count
    end_address,        \* start_address + length * WORD_SIZE
    address,            \* loop variable of the extraction loop
    vtor_address,       \* result of calculate_vtor_exc
    exception_number,   \* result of calculate_vtor_exc
    recovered_value,    \* value recovered for the current address, or None
    pc_read,            \* pc of the last recover_pc of this iteration, or None
    xpsr_read,          \* xpsr of the last recover_pc of this iteration, or None
    cmds,               \* every command sent to OpenOCD so far
    iteration_start,    \* Len(cmds) when the current loop iteration began
    excited,            \* the calls of generate_exception so far
    output,             \* the words written to stdout and flushed so far
    stdout_buffer,      \* the words written to stdout and not yet flushed
    send_pc,            \* position inside OpenOcd.send: "idle" or "recv"
    sent,               \* the number of commands handed to socket.send
    reply_left,         \* reply bytes of the server that recv has not returned yet
    recv_data,          \* data of OpenOcd._recv
    send_result         \* what the last OpenOcd.send returned

vars == <<start_address, length, skip_value, implemented, pc, i, count,
          num_exceptions, end_address, address, vtor_address,
          exception_number, recovered_value, pc_read, xpsr_read, cmds,
          iteration_start, excited, output, stdout_buffer, send_pc, sent,
          reply_left, recv_data, send_result>>

inputs == <<start_address, length, skip_value, implemented>>

\* The state of one OpenOcd.send call and of its socket.
wire == <<send_pc, sent, reply_left, recv_data, send_result>>

\* The socket before the first command.
WireInit ==
    /\ send_pc = "idle"
    /\ sent = 0
    /\ reply_left = <<>>
    /\ recv_data = <<>>
    /\ send_result = <<>>

Init ==
    /\ start_address \in StartAddresses
    /\ length \in 0..MaxLength
    /\ skip_value \in SkipValues
    /\ implemented \in Targets
    /\ pc = "connect"
    /\ i = 0
    /\ count = 0
    /\ num_exceptions = 0
    /\ end_address = 0
    /\ address = 0
    /\ vtor_address = 0
    /\ exception_number = 0
    /\ recovered_value = None
    /\ pc_read = None
    /\ xpsr_read = None
    /\ cmds = <<>>
    /\ iteration_start = 0
    /\ excited = <<>>
    /\ output = <<>>
    /\ stdout_buffer = <<>>
    /\ WireInit

(***************************************************************************)
(* Start-up.                                                               *)
(***************************************************************************)
\* oocd.connect(); a failure exits the program.
Connect(ok) ==
    /\ pc = "connect"
    /\ pc' = IF ok THEN "setup" ELSE "exit"
    /\ UNCHANGED <<inputs, wire, stdout_buffer, iteration_start, i, count, num_exceptions, end_address, address,
                   vtor_address, exception_number, recovered_value, pc_read,
                   xpsr_read, cmds, excited, output>>

\* halt, maskisr off and the four scratch instructions.
Setup ==
    /\ pc = "setup"
    /\ cmds' = cmds \o SetupCommands
    /\ pc' = "probe"
    /\ UNCHANGED <<inputs, wire, stdout_buffer, iteration_start, i, count, num_exceptions, end_address, address,
                   vtor_address, exception_number, recovered_value, pc_read,
                   xpsr_read, excited, output>>

(***************************************************************************)
(* determine_num_ext_interrupts.                                           *)
(***************************************************************************)
\* The loop iteration with count incremented before the comparison.
ProbeLine_counts_first(xpsr) ==
    /\ pc = "probe"
    /\ i < MAX_EXT_INTERRUPTS
    /\ cmds' = cmds \o ProbeCommands(i)
    /\ iteration_start' = Len(cmds)
    /\ IF xpsr = None
       THEN /\ pc' = "crashed"
            /\ UNCHANGED <<i, count>>
       ELSE /\ count' = count + 1
            /\ IF ExceptionField(xpsr) # i + 16
               THEN /\ pc' = "probed"
                    /\ UNCHANGED i
               ELSE /\ i' = i + 1
                    /\ pc' = IF i + 1 < MAX_EXT_INTERRUPTS THEN "probe" ELSE "probed"
    /\ UNCHANGED <<inputs, wire, stdout_buffer, num_exceptions, end_address, address,
                   vtor_address, exception_number, recovered_value, pc_read,
                   xpsr_read, excited, output>>

\* One iteration of the loop; xpsr is what read_register returned.
ProbeLine(xpsr) ==
    /\ pc = "probe"
    /\ i < MAX_EXT_INTERRUPTS
    /\ cmds' = cmds \o ProbeCommands(i)
    /\ iteration_start' = Len(cmds)
    /\ IF xpsr = None
       THEN \* xpsr & 0x1ff raises TypeError
            /\ pc' = "crashed"
            /\ UNCHANGED <<i, count>>
       ELSE IF ExceptionField(xpsr) # i + 16
            THEN \* break
                 /\ pc' = "probed"
                 /\ UNCHANGED <<i, count>>
            ELSE /\ count' = count + 1
                 /\ i' = i + 1
                 /\ pc' = IF i + 1 < MAX_EXT_INTERRUPTS THEN "probe" ELSE "probed"
    /\ UNCHANGED <<inputs, wire, stdout_buffer, num_exceptions, end_address, address,
                   vtor_address, exception_number, recovered_value, pc_read,
                   xpsr_read, excited, output>>

\* return count; num_exceptions and end_address are computed.
ProbeReturn ==
    /\ pc = "probed"
    /\ num_exceptions' = 16 + count
    /\ end_address' = start_address + (length * WORD_SIZE)
    /\ address' = start_address
    /\ pc' = "loop"
    /\ UNCHANGED <<inputs, wire, stdout_buffer, iteration_start, i, count, vtor_address, exception_number,
                   recovered_value, pc_read, xpsr_read, cmds, excited, output>>

(***************************************************************************)
(* The extraction loop.                                                    *)
(***************************************************************************)
\* for address in range(...): calculate_vtor_exc, then the branch is chosen.
MapAddress ==
    /\ pc = "loop"
    /\ address < end_address
    /\ vtor_address' = calculate_vtor_exc(address, num_exceptions)[1]
    /\ exception_number' = calculate_vtor_exc(address, num_exceptions)[2]
    /\ pc' = "dispatch"
    /\ iteration_start' = Len(cmds)
    /\ UNCHANGED <<inputs, wire, stdout_buffer, i, count, num_exceptions, end_address, address,
                   recovered_value, pc_read, xpsr_read, cmds, excited, output>>

\* The read of SP without the reset before it.
ReadInitialSP_no_reset(sp) ==
    /\ pc = "dispatch"
    /\ address = 0
    /\ cmds' = cmds \o <<ReadRegister(Register.SP)>>
    /\ recovered_value' = sp
    /\ pc' = "emit"
    /\ UNCHANGED <<inputs, wire, stdout_buffer, iteration_start, i, count, num_exceptions, end_address, address,
                   vtor_address, exception_number, pc_read, xpsr_read,
                   excited, output>>

\* address == 0x00000000: reset halt, read SP.
ReadInitialSP(sp) ==
    /\ pc = "dispatch"
    /\ address = 0
    /\ cmds' = cmds \o <<Send("reset halt"), ReadRegister(Register.SP)>>
    /\ recovered_value' = sp
    /\ pc' = "emit"
    /\ UNCHANGED <<inputs, wire, stdout_buffer, iteration_start, i, count, num_exceptions, end_address, address,
                   vtor_address, exception_number, pc_read, xpsr_read,
                   excited, output>>

\* address == 0x00000004: reset halt, then recover_pc.
ResetForResetVector ==
    /\ pc = "dispatch"
    /\ address # 0
    /\ address = 4
    /\ cmds' = cmds \o <<Send("reset halt")>>
    /\ pc' = "recover"
    /\ UNCHANGED <<inputs, wire, stdout_buffer, iteration_start, i, count, num_exceptions, end_address, address,
                   vtor_address, exception_number, recovered_value, pc_read,
                   xpsr_read, excited, output>>

\* exception_number in INACCESSIBLE_EXC_NUMBERS: recovered_value = None.
MarkUnavailable ==
    /\ pc = "dispatch"
    /\ address # 0
    /\ address # 4
    /\ exception_number \in INACCESSIBLE_EXC_NUMBERS
    /\ recovered_value' = None
    /\ pc' = "emit"
    /\ UNCHANGED <<inputs, wire, stdout_buffer, iteration_start, i, count, num_exceptions, end_address, address,
                   vtor_address, exception_number, pc_read, xpsr_read, cmds,
                   excited, output>>

\* else: generate_exception(oocd, vtor_address, exception_number).
Excite ==
    /\ pc = "dispatch"
    /\ address # 0
    /\ address # 4
    /\ exception_number \notin INACCESSIBLE_EXC_NUMBERS
    /\ cmds' = cmds \o generate_exception(vtor_address, exception_number)
    /\ excited' = Append(excited, <<address, vtor_address, exception_number>>)
    /\ pc' = IF Handled(exception_number) THEN "recover" ELSE "fatal"
    /\ UNCHANGED <<inputs, wire, stdout_buffer, iteration_start, i, count, num_exceptions, end_address, address,
                   vtor_address, exception_number, recovered_value, pc_read,
                   xpsr_read, output>>

\* What read_registers([PC, PSR]) sends: it returns at the first failed read.
ReadRegistersCommands(pc_value) ==
    IF pc_value = None
    THEN <<ReadRegister(Register.PC)>>
    ELSE <<ReadRegister(Register.PC), ReadRegister(Register.PSR)>>

\* read_registers returns None when one of the reads failed.
ReadRegistersFailed(pc_value, xpsr_value) ==
    pc_value = None \/ xpsr_value = None

\* recover_pc(oocd); iterating the None of read_registers raises TypeError.
RecoverPc(pc_value, xpsr_value) ==
    /\ pc = "recover"
    /\ cmds' = cmds \o ReadRegistersCommands(pc_value)
    /\ pc_read' = pc_value
    /\ xpsr_read' = IF pc_value = None THEN None ELSE xpsr_value
    /\ IF ReadRegistersFailed(pc_value, xpsr_value)
       THEN /\ pc' = "crashed"
            /\ UNCHANGED recovered_value
       ELSE /\ recovered_value' = RecoverValue(pc_value, xpsr_value)
            /\ pc' = "emit"
    /\ UNCHANGED <<inputs, wire, stdout_buffer, iteration_start, i, count, num_exceptions, end_address, address,
                   vtor_address, exception_number, excited, output>>

\* The written value with 0 in place of the configured literal.
OutputValue_zero(value, policy) == IF value = None THEN 0 ELSE value

\* The value written for the current address, after the --value policy.
OutputValue(value, policy) == IF value = None THEN policy ELSE value

\* Whether the loop body continues without writing.
Skipped(value, policy) == value = None /\ policy = SKIP

\* The end of the loop body without sys.stdout.flush.
Emit_no_flush ==
    /\ pc = "emit"
    /\ IF Skipped(recovered_value, skip_value)
       THEN UNCHANGED stdout_buffer
       ELSE stdout_buffer' = Append(stdout_buffer,
                               [address |-> address,
                                value |-> OutputValue(recovered_value, skip_value)])
    /\ address' = address + WORD_SIZE
    /\ pc_read' = None
    /\ xpsr_read' = None
    /\ pc' = "loop"
    /\ UNCHANGED <<inputs, wire, i, count, num_exceptions, end_address,
                   iteration_start, vtor_address, exception_number,
                   recovered_value, cmds, excited, output>>

\* The end of the loop body: skip, or substitute, write and flush.
Emit ==
    /\ pc = "emit"
    /\ IF Skipped(recovered_value, skip_value)
       THEN UNCHANGED <<output, stdout_buffer>>
       ELSE \* sys.stdout.write, then sys.stdout.flush
            /\ output' = output \o Append(stdout_buffer,
                           [address |-> address,
                            value |-> OutputValue(recovered_value, skip_value)])
            /\ stdout_buffer' = <<>>
    /\ address' = address + WORD_SIZE
    /\ pc_read' = None
    /\ xpsr_read' = None
    /\ pc' = "loop"
    /\ UNCHANGED <<inputs, wire, i, count, num_exceptions, end_address,
                   iteration_start, vtor_address, exception_number,
                   recovered_value, cmds, excited>>

\* The range is exhausted.
Finish ==
    /\ pc = "loop"
    /\ address >= end_address
    /\ pc' = "done"
    \* the interpreter flushes stdout when it exits
    /\ output' = output \o stdout_buffer
    /\ stdout_buffer' = <<>>
    /\ UNCHANGED <<inputs, wire, iteration_start, i, count, num_exceptions,
                   end_address, address, vtor_address, exception_number,
                   recovered_value, pc_read, xpsr_read, cmds, excited>>

Next ==
    \/ \E ok \in BOOLEAN : Connect(ok)
    \/ Setup
    \/ \E xpsr \in {XpsrAfterProbe(i, implemented), None} : ProbeLine(xpsr)
    \/ ProbeReturn
    \/ MapAddress
    \/ \E sp \in SPReplies \cup {None} : ReadInitialSP(sp)
    \/ ResetForResetVector
    \/ MarkUnavailable
    \/ Excite
    \/ \E pc_value \in PCReplies \cup {None}, xpsr_value \in XPSRReplies \cup {None} :
           RecoverPc(pc_value, xpsr_value)
    \/ Emit
    \/ Finish

Spec == Init /\ [][Next]_vars

(***************************************************************************)
(* The mapping applied to every address and exception count of a range:    *)
(* the program stands at the head of the extraction loop with one word to  *)
(* extract.                                                                *)
(***************************************************************************)
InitMap ==
    /\ start_address \in 0..MaxAddress
    /\ length = 1
    /\ skip_value = SKIP
    /\ implemented = {}
    /\ pc = "loop"
    /\ i = 0
    /\ count = 0
    /\ num_exceptions \in 16..MaxNumExc
    /\ end_address = start_address + WORD_SIZE
    /\ address = start_address
    /\ vtor_address = 0
    /\ exception_number = 0
    /\ recovered_value = None
    /\ pc_read = None
    /\ xpsr_read = None
    /\ cmds = <<>>
    /\ iteration_start = 0
    /\ excited = <<>>
    /\ output = <<>>
    /\ stdout_buffer = <<>>
    /\ WireInit

NextMap == MapAddress

SpecMap == InitMap /\ [][NextMap]_vars

(***************************************************************************)
(* The extraction loop for a given exception count: the prober has         *)
(* returned count on a target that implements the lines 0..count-1.        *)
(***************************************************************************)
\* The exception counts of the extraction runs.
ExtractCounts == {16, 24, 33, 64, MaxNumExc}

InitExtract ==
    /\ start_address \in {WORD_SIZE * w : w \in 0..MaxExtractWord} \cup {18}
    /\ length \in 1..2
    /\ skip_value = 195936478
    /\ num_exceptions \in ExtractCounts
    /\ count = num_exceptions - 16
    /\ i = count
    /\ implemented = 0..(count - 1)
    /\ pc = "loop"
    /\ end_address = start_address + (length * WORD_SIZE)
    /\ address = start_address
    /\ vtor_address = 0
    /\ exception_number = 0
    /\ recovered_value = None
    /\ pc_read = None
    /\ xpsr_read = None
    /\ cmds = <<>>
    /\ iteration_start = 0
    /\ excited = <<>>
    /\ output = <<>>
    /\ stdout_buffer = <<>>
    /\ WireInit

NextExtract ==
    \/ MapAddress
    \/ \E sp \in SPReplies \cup {None} : ReadInitialSP(sp)
    \/ ResetForResetVector
    \/ MarkUnavailable
    \/ Excite
    \/ \E pc_value \in PCReplies \cup {None}, xpsr_value \in XPSRReplies \cup {None} :
           RecoverPc(pc_value, xpsr_value)
    \/ Emit
    \/ Finish

SpecExtract == InitExtract /\ [][NextExtract]_vars

(***************************************************************************)
(* The prober on targets with many lines, up to the architectural 496:     *)
(* a run that requests no word.  The program is sequential and runs until  *)
(* it exits, hence the weak fairness of its steps.                         *)
(***************************************************************************)
\* The numbers of leading lines of the probed targets.
ProbePrefixes == {0, 1, 250, 495, 496}

\* Every command sent when the loop of the prober has confirmed the lines
\* 0..k-1.
ProbeLog(k) ==
    SetupCommands
    \o [j \in 1..(8 * k) |-> ProbeCommands((j - 1) \div 8)[((j - 1) % 8) + 1]]

\* The state of the program when the prober has confirmed the lines 0..k-1
\* (k >= 1) of a target and is about to probe line k.
ProbingLine(k, lines) ==
    /\ implemented = lines
    /\ pc = "probe"
    /\ i = k
    /\ count = k
    /\ cmds = ProbeLog(k)
    /\ iteration_start = 6 + 8 * (k - 1)

\* The program at its start, and also in the loop of the prober after 490
\* confirmed lines on the targets with at least 495 lines.
InitProbe ==
    /\ start_address = 0
    /\ length = 0
    /\ skip_value = SKIP
    /\ \/ /\ implemented \in {0..(p - 1) : p \in ProbePrefixes}
          /\ pc = "connect"
          /\ i = 0
          /\ count = 0
          /\ cmds = <<>>
          /\ iteration_start = 0
       \/ \E p \in {495, 496} : ProbingLine(490, 0..(p - 1))
    /\ num_exceptions = 0
    /\ end_address = 0
    /\ address = 0
    /\ vtor_address = 0
    /\ exception_number = 0
    /\ recovered_value = None
    /\ pc_read = None
    /\ xpsr_read = None
    /\ excited = <<>>
    /\ output = <<>>
    /\ stdout_buffer = <<>>
    /\ WireInit

NextProbe ==
    \/ \E ok \in BOOLEAN : Connect(ok)
    \/ Setup
    \/ \E xpsr \in {XpsrAfterProbe(i, implemented), None} : ProbeLine(xpsr)
    \/ ProbeReturn
    \/ Finish

SpecProbe == InitProbe /\ [][NextProbe]_vars /\ WF_vars(NextProbe)

(***************************************************************************)
(* OpenOcd.send on its socket (openocd.py): the command and the command    *)
(* token are written, then _recv reads chunks until one of them holds the  *)
(* command token.  The server answers every command with one reply, its    *)
(* bytes followed by one command token; the socket hands the reply over in *)
(* chunks of any size up to the buffer size.                               *)
(***************************************************************************)

\* The number of commands of a session.
MaxCommands == 3

\* The number of bytes of a reply, the command token not counted.
MaxReplyLen == 3

COMMAND_TOKEN == 26

buffer_size == 4096

\* The bytes of a reply: a digit and a blank.
ReplyBytes == {48, 32}

Whitespace == {32}

Replies ==
    UNION {[1..n -> ReplyBytes] : n \in 0..MaxReplyLen}

\* str.strip() on the left end.
RECURSIVE StripLeft(_)
StripLeft(s) ==
    IF s # <<>> /\ Head(s) \in Whitespace THEN StripLeft(Tail(s)) ELSE s

\* str.strip() on the right end.
RECURSIVE StripRight(_)
StripRight(s) ==
    IF s # <<>> /\ s[Len(s)] \in Whitespace
    THEN StripRight(SubSeq(s, 1, Len(s) - 1))
    ELSE s

\* data.decode('utf-8').strip()[:-1]
Decode(data) ==
    LET stripped == StripRight(StripLeft(data))
    IN  SubSeq(stripped, 1, Len(stripped) - 1)

HasToken(chunk) ==
    \E k \in 1..Len(chunk) : chunk[k] = COMMAND_TOKEN

\* The variables of the program above the socket.
program == <<inputs, pc, i, count, num_exceptions, end_address, address,
             vtor_address, exception_number, recovered_value, pc_read,
             xpsr_read, cmds, iteration_start, excited, output,
             stdout_buffer>>

\* send: the command goes out and the server answers it.
SocketSend(reply) ==
    /\ send_pc = "idle"
    /\ sent < MaxCommands
    /\ sent' = sent + 1
    /\ reply_left' = reply_left \o Append(reply, COMMAND_TOKEN)
    /\ recv_data' = <<>>
    /\ send_pc' = "recv"
    /\ UNCHANGED <<program, send_result>>

\* _recv that returns after its first chunk.
Recv_first_chunk(n) ==
    /\ send_pc = "recv"
    /\ n \in 1..Len(reply_left)
    /\ n <= buffer_size
    /\ recv_data' = recv_data \o SubSeq(reply_left, 1, n)
    /\ reply_left' = SubSeq(reply_left, n + 1, Len(reply_left))
    /\ send_pc' = "idle"
    /\ send_result' = Decode(recv_data')
    /\ UNCHANGED <<program, sent>>

\* One round of the loop of _recv: a chunk of n bytes.
Recv(n) ==
    /\ send_pc = "recv"
    /\ n \in 1..Len(reply_left)
    /\ n <= buffer_size
    /\ LET tmp == SubSeq(reply_left, 1, n)
       IN  /\ recv_data' = recv_data \o tmp
           /\ reply_left' = SubSeq(reply_left, n + 1, Len(reply_left))
           /\ IF HasToken(tmp)
              THEN /\ send_pc' = "idle"
                   /\ send_result' = Decode(recv_data')
              ELSE /\ send_pc' = "recv"
                   /\ UNCHANGED send_result
    /\ UNCHANGED <<program, sent>>

InitSend ==
    /\ start_address = 0
    /\ length = 1
    /\ skip_value = SKIP
    /\ implemented = {}
    /\ pc = "setup"
    /\ i = 0
    /\ count = 0
    /\ num_exceptions = 0
    /\ end_address = 0
    /\ address = 0
    /\ vtor_address = 0
    /\ exception_number = 0
    /\ recovered_value = None
    /\ pc_read = None
    /\ xpsr_read = None
    /\ cmds = <<>>
    /\ iteration_start = 0
    /\ excited = <<>>
    /\ output = <<>>
    /\ stdout_buffer = <<>>
    /\ WireInit

NextSend ==
    \/ \E reply \in Replies : SocketSend(reply)
    \/ \E n \in 1..(MaxReplyLen + 1) : Recv(n)

SpecSend == InitSend /\ [][NextSend]_vars

(***************************************************************************)
(* Properties.                                                             *)
(***************************************************************************)
\* The largest power of two that is at most n, for 1 <= n < 1024.
LargestPowerOfTwo(n) ==
    CHOOSE t \in {1, 2, 4, 8, 16, 32, 64, 128, 256, 512} : t <= n /\ n < 2 * t

\* calculate_vtor_exc has returned for the current address.
Mapped == pc = "dispatch"

\* The raw exception number of the current address: its word index in the
\* table-sized block that holds it.
RawNumber ==
    (address % (LargestPowerOfTwo(num_exceptions) * 4)) \div 4

\* The wrap-around precondition for the returned base.
WrapPrecondition ==
    LET T == LargestPowerOfTwo(num_exceptions)
    IN  /\ vtor_address % (T * 2 * 4) # 0
        /\ RawNumber + T < num_exceptions

\* C1: for every address and every exception count N >= 16, with T the
\* largest power of two <= N, the returned vector-table base is a multiple
\* of T*4 and the returned exception number lies in [0, 2T).
C1_BaseAlignedNumberInRange ==
    Mapped =>
        LET T == LargestPowerOfTwo(num_exceptions)
        IN  /\ vtor_address % (T * 4) = 0
            /\ exception_number >= 0
            /\ exception_number < 2 * T

\* A wrapped number, in the upper half [T, 2T), has been returned.
C1_Witness ==
    /\ Mapped
    /\ num_exceptions = 24
    /\ exception_number = 23
    /\ vtor_address = 192

\* C2: a raw number in the inaccessible set becomes raw + T exactly when
\* the wrap-around precondition holds and is returned unchanged otherwise;
\* a raw number outside the set is returned unchanged.
C2_WrapExactlyOnPrecondition ==
    Mapped =>
        LET T == LargestPowerOfTwo(num_exceptions)
        IN  /\ (RawNumber \in {0, 1, 7, 8, 9, 10, 13} /\ WrapPrecondition)
                 => exception_number = RawNumber + T
            /\ (RawNumber \in {0, 1, 7, 8, 9, 10, 13} /\ ~WrapPrecondition)
                 => exception_number = RawNumber
            /\ RawNumber \notin {0, 1, 7, 8, 9, 10, 13}
                 => exception_number = RawNumber

\* An inaccessible raw number has been wrapped to raw + T.
C2_Witness ==
    /\ Mapped
    /\ RawNumber \in {0, 1, 7, 8, 9, 10, 13}
    /\ WrapPrecondition
    /\ exception_number = RawNumber + LargestPowerOfTwo(num_exceptions)

(***************************************************************************)
(* Properties of the run.                                                  *)
(***************************************************************************)
\* The prober has returned and the extraction loop has been entered.
InExtraction == num_exceptions >= 16

\* The program has stopped after it entered the extraction loop.
ExtractionEnded == InExtraction /\ pc \in {"done", "crashed", "fatal"}

\* The commands sent in the current loop iteration.
IterationCmds == SubSeq(cmds, iteration_start + 1, Len(cmds))

IsSend(c, text) == c.op = "send" /\ c.arg = text
IsRead(c, register) == c.op = "read_register" /\ c.arg = register
IsWriteRegister(c, register, value) ==
    c.op = "write_register" /\ c.arg = register /\ c.val = value
IsWriteMemory(c, addr, value) ==
    c.op = "write_memory" /\ c.arg = addr /\ c.val = value

\* C3: the recovered value has bit 0 equal to PSR bit 24 and bits 31..1
\* equal to those of PC, for every PC/PSR pair read, PC values with bit 0
\* set included.
C3_Bit0IsThumbBit ==
    (pc = "emit" /\ pc_read # None /\ xpsr_read # None) =>
        /\ recovered_value % 2 = (xpsr_read \div 16777216) % 2
        /\ recovered_value \div 2 = pc_read \div 2

\* C4: with N = 16 and L requested words the driver emits exactly L results
\* under the substitute policy (at most L under the omit policy), for the
\* addresses start, start+4, ... in strictly ascending order.
C4_ExactlyLResultsInOrder ==
    (ExtractionEnded /\ num_exceptions = 16) =>
        /\ skip_value # SKIP => Len(output) = length
        /\ skip_value = SKIP => Len(output) <= length
        /\ \A k \in DOMAIN output :
              /\ output[k].address \in {start_address + 4 * w : w \in 0..(length - 1)}
              /\ skip_value # SKIP => output[k].address = start_address + 4 * (k - 1)
              /\ k > 1 => output[k - 1].address < output[k].address

\* The length of the longest run of implemented lines that starts at line 0.
PrefixLength(lines) ==
    CHOOSE k \in 0..496 :
        /\ \A j \in 0..(k - 1) : j \in lines
        /\ k = 496 \/ k \notin lines

\* The enable write for an external line has been sent.
LineProbed(line) ==
    \E k \in DOMAIN cmds :
        IsWriteMemory(cmds[k], <<57344, 57600 + 4 * (line \div 32)>>, Bit(line % 32))

\* C5: the prober returns the length of the longest prefix of confirming
\* lines: with line k the first that does not confirm the result is k,
\* whatever lines beyond k are implemented, and no line beyond k is probed.
C5_CountIsConfirmedPrefix ==
    pc = "probed" =>
        /\ count = PrefixLength(implemented)
        /\ \A line \in 0..(count + 6) :
              LineProbed(line) <=> (line <= count /\ line < 496)

\* The prober returned 2 on a target that implements lines beyond the gap.
C5_Witness ==
    /\ pc = "probed"
    /\ count = 2
    /\ {3, 5} \subseteq implemented

\* C6: the words at 0x0 and 0x4 are resolved by a reset to the halted
\* state followed by register reads only (SP for 0x0; PC and PSR for 0x4),
\* and generate_exception is never called for either address.
C6_DirectReadForFirstTwoWords ==
    /\ \A k \in DOMAIN excited : excited[k][1] \notin {0, 4}
    /\ (InExtraction /\ address = 0 /\ pc = "emit") =>
          /\ Len(IterationCmds) = 2
          /\ IsSend(IterationCmds[1], "reset halt")
          /\ IsRead(IterationCmds[2], 13)
    /\ (InExtraction /\ address = 4 /\ pc \in {"emit", "crashed"}) =>
          /\ Len(IterationCmds) \in {2, 3}
          /\ IsSend(IterationCmds[1], "reset halt")
          /\ IsRead(IterationCmds[2], 15)
          /\ Len(IterationCmds) = 3 => IsRead(IterationCmds[3], 16)
          /\ pc = "emit" => Len(IterationCmds) = 3

\* The word at 0x0 has been emitted and the word at 0x4 recovered.
C6_Witness ==
    /\ pc = "emit"
    /\ address = 4
    /\ recovered_value = 257
    /\ Len(output) = 1
    /\ output[1].address = 0
    /\ output[1].value = 536891392

\* C7: with N = 16 the address 0x10 maps to base 0 and exception 4, and
\* the exciter writes SHCSR bit 16 and PC = execute-never address before
\* its single step.
C7_MemManageRecipe ==
    (num_exceptions = 16 /\ address = 16
        /\ pc \in {"dispatch", "recover", "emit", "crashed", "fatal"}) =>
        /\ vtor_address = 0
        /\ exception_number = 4
        /\ pc # "dispatch" =>
              \E a, b, st \in DOMAIN IterationCmds :
                 /\ IsWriteMemory(IterationCmds[a], <<57344, 60708>>, <<1, 0>>)
                 /\ IsWriteRegister(IterationCmds[b], 15, <<57344, 0>>)
                 /\ IsSend(IterationCmds[st], "step")
                 /\ a < st
                 /\ b < st
                 /\ \A t \in DOMAIN IterationCmds :
                       IsSend(IterationCmds[t], "step") => t = st

\* The exciter has run for address 0x10 on a target without external lines.
C7_Witness ==
    /\ pc = "recover"
    /\ num_exceptions = 16
    /\ address = 16
    /\ Len(excited) = 1

\* C8: a failed register read during extraction never aborts the run: the
\* word is unavailable and the run goes on.
C8_ReadFailureNeverAborts ==
    InExtraction => pc # "crashed"

\* C9: generate_exception is only ever called with a number of its recipe
\* table or an external interrupt, and never reaches its fatal exit.
C9_ExciterOnlyGetsRecipeNumbers ==
    /\ pc # "fatal"
    /\ \A k \in DOMAIN excited :
          \/ excited[k][3] \in {2, 3, 4, 5, 6, 11, 12, 14, 15}
          \/ excited[k][3] >= 16

\* Two words have been excited, the first through a wrapped number.
C9_Witness ==
    /\ pc = "done"
    /\ Len(excited) = 2
    /\ excited[1][3] >= 16
    /\ excited[2][3] < 16

\* The NVIC enable or pending write of an external line below the bound.
IsLineWrite(c, bound) ==
    \E line \in 0..(bound - 1) :
        \/ IsWriteMemory(c, <<57344, 57600 + 4 * (line \div 32)>>, Bit(line % 32))
        \/ IsWriteMemory(c, <<57344, 57856 + 4 * (line \div 32)>>, Bit(line % 32))

\* A write into the NVIC enable or pending banks.
IsNvicWrite(c) ==
    /\ c.op = "write_memory"
    /\ c.arg[1] = 57344
    /\ c.arg[2] \in (57600..57660) \cup (57856..57916)

\* C10: every number calculate_vtor_exc returns and every number passed to
\* the exciter is below N = 16 + count, and the exciter enables and pends
\* only external lines the prober confirmed.
C10_NumberBelowExceptionCount ==
    InExtraction =>
        /\ num_exceptions = 16 + count
        /\ pc \in {"dispatch", "recover", "emit"} => exception_number < num_exceptions
        /\ \A k \in DOMAIN excited :
              /\ excited[k][3] < num_exceptions
              /\ excited[k][3] >= 16 => (excited[k][3] - 16) \in implemented
        /\ pc \in {"dispatch", "recover", "emit", "crashed", "fatal"} =>
              \A k \in DOMAIN IterationCmds :
                 IsNvicWrite(IterationCmds[k]) => IsLineWrite(IterationCmds[k], count)

\* The only confirmed external line is pended for a wrapped slot.
C10_Witness ==
    /\ pc = "recover"
    /\ num_exceptions = 17
    /\ exception_number = 16
    /\ address = 64
    /\ \E k \in DOMAIN IterationCmds : IsNvicWrite(IterationCmds[k])

(***************************************************************************)
(* Properties of the exciter.                                              *)
(***************************************************************************)
\* generate_exception has run for the current address.
Excited ==
    /\ InExtraction
    /\ address \notin {0, 4}
    /\ pc \in {"recover", "emit", "crashed"}
    /\ IterationCmds # <<>>

\* The position of the first step command of the current iteration.
StepIndex ==
    CHOOSE st \in DOMAIN IterationCmds :
        /\ IsSend(IterationCmds[st], "step")
        /\ \A t \in 1..(st - 1) : ~IsSend(IterationCmds[t], "step")

\* The PC of the recipe table for an exception number.
RecipePC(number) ==
    CASE number \in {3, 6} -> <<8192, 6>>
      [] number = 4 -> <<57344, 0>>
      [] number = 5 -> <<8192, 4>>
      [] number = 11 -> <<8192, 0>>
      [] OTHER -> <<8192, 2>>

\* C11: the exciter sends reset halt, the VTOR write of the base, the
\* peripheral writes, then register writes that include PSR = 0x01000000,
\* SP = the safe value and the recipe's PC (and R6 for BusFault), and then
\* exactly one step; no register or memory write follows the step.
C11_ExciterCommandOrder ==
    Excited =>
        LET w == IterationCmds
            st == StepIndex
        IN  /\ \E t \in DOMAIN w : IsSend(w[t], "step")
            /\ \A t \in DOMAIN w : IsSend(w[t], "step") => t = st
            /\ IsSend(w[1], "reset halt")
            /\ IsWriteMemory(w[2], <<57344, 60680>>,
                             <<vtor_address \div 65536, vtor_address % 65536>>)
            /\ \E r \in 3..st :
                  /\ \A t \in 3..(r - 1) : w[t].op = "write_memory"
                  /\ \A t \in r..(st - 1) : w[t].op = "write_register"
            /\ \E t \in 3..(st - 1) : IsWriteRegister(w[t], 16, <<256, 0>>)
            /\ \E t \in 3..(st - 1) : IsWriteRegister(w[t], 13, <<8192, 512>>)
            /\ \E t \in 3..(st - 1) :
                  IsWriteRegister(w[t], 15, RecipePC(exception_number))
            /\ exception_number = 5 =>
                  \E t \in 3..(st - 1) : IsWriteRegister(w[t], 6, <<65535, 65280>>)
            /\ \A t \in (st + 1)..Len(w) : w[t].op = "read_register"

\* BusFault has been excited and the recovered word read back.
C11_Witness ==
    /\ Excited
    /\ pc = "emit"
    /\ exception_number = 5
    /\ Len(IterationCmds) = 10

\* The peripheral writes of the recipe table, as address and value.
RecipePeripherals(number) ==
    CASE number = 2 -> {<<(<<57344, 60676>>), (<<32768, 0>>)>>}
      [] number = 4 -> {<<(<<57344, 60708>>), (<<1, 0>>)>>}
      [] number = 5 -> {<<(<<57344, 60708>>), (<<2, 0>>)>>}
      [] number = 6 -> {<<(<<57344, 60708>>), (<<4, 0>>)>>}
      [] number = 12 -> {<<(<<57344, 60924>>), (<<2, 0>>)>>}
      [] number = 14 -> {<<(<<57344, 60676>>), (<<4096, 0>>)>>}
      [] number = 15 -> {<<(<<57344, 60676>>), (<<1024, 0>>)>>}
      [] number >= 16 ->
            {<<(<<57344, 57600 + 4 * ((number - 16) \div 32)>>), Bit((number - 16) % 32)>>,
             <<(<<57344, 57856 + 4 * ((number - 16) \div 32)>>), Bit((number - 16) % 32)>>}
      [] OTHER -> {}

\* The positions of the memory writes of the current iteration, the VTOR
\* write apart.
PeripheralPositions ==
    {t \in DOMAIN IterationCmds :
        /\ IterationCmds[t].op = "write_memory"
        /\ IterationCmds[t].arg # <<57344, 60680>>}

\* C19: when the exciter steps, the peripheral registers written since the
\* last reset are exactly those of the requested exception's recipe, each
\* written once, whatever was excited for earlier words: none for
\* HardFault, and one bit (n-16) mod 32 of bank (n-16) div 32 of ISER and
\* of ISPR for an external interrupt n.
C19_OnlyRecipePeripherals ==
    Excited =>
        /\ \A t \in DOMAIN IterationCmds :
              (IsSend(IterationCmds[t], "reset halt")
                 \/ IsSend(IterationCmds[t], "reset init")) <=> t = 1
        /\ \A t \in PeripheralPositions : t < StepIndex
        /\ {<<IterationCmds[t].arg, IterationCmds[t].val>> : t \in PeripheralPositions}
              = RecipePeripherals(exception_number)
        /\ Cardinality(PeripheralPositions)
              = Cardinality(RecipePeripherals(exception_number))

\* HardFault is excited right after a word that was read through NMI.
C19_Witness ==
    /\ Excited
    /\ pc = "recover"
    /\ exception_number = 3
    /\ Len(excited) = 2
    /\ excited[1][3] = 2

(***************************************************************************)
(* Properties of the whole run.                                            *)
(***************************************************************************)
IsReset(c) == IsSend(c, "reset halt") \/ IsSend(c, "reset init")

\* The positions of the step commands, of the resets and of the register
\* reads among all the commands sent so far.
StepPositions == {k \in DOMAIN cmds : IsSend(cmds[k], "step")}
ResetPositions == {k \in DOMAIN cmds : IsReset(cmds[k])}
ReadPositions == {k \in DOMAIN cmds : cmds[k].op = "read_register"}

\* C12: over the prober and the extraction together, a reset lies between
\* any two step commands, and every register read follows a reset sent in
\* the same loop iteration, with at most that iteration's step between
\* the reset and the read.  The steps and reads of the current iteration
\* are compared with everything sent before them; the log of a completed
\* run is checked as a whole.
C12_ResetBeforeEveryRead ==
    LET steps == StepPositions
        resets == ResetPositions
        reads == ReadPositions
    IN  /\ \A b \in steps :
              (b > iteration_start \/ pc = "done") =>
                 \A a \in steps : a < b => \E r \in resets : a < r /\ r < b
        /\ \A k \in reads :
              k > iteration_start =>
                 \E r \in resets :
                    /\ iteration_start < r
                    /\ r < k
                    /\ Cardinality({t \in steps : r < t /\ t < k}) <= 1
        /\ \A k \in reads :
              pc = "done" =>
                 \E r \in resets :
                    /\ r < k
                    /\ Cardinality({t \in steps : r < t /\ t < k}) <= 1

\* Two words have been read through exceptions after the prober ran.
C12_Witness ==
    /\ pc = "done"
    /\ Len(excited) = 2
    /\ count = 2
    /\ Cardinality(StepPositions) = 5

\* The number of generate_exception calls made for an address.
ExcitedFor(a) == Cardinality({k \in DOMAIN excited : excited[k][1] = a})

\* C13: for an address other than 0x0 and 0x4 the word is unavailable
\* exactly when the mapped exception number is in the inaccessible set,
\* and then no command is sent for it; otherwise the exciter and then the
\* recoverer run exactly once.  An unavailable word is written as the
\* configured literal under the substitute policy and not at all under
\* the omit policy.
C13_UnavailableExactlyWhenInaccessible ==
    /\ (InExtraction /\ address \notin {0, 4} /\ pc \in {"recover", "emit", "crashed"}) =>
          IF exception_number \in {0, 1, 7, 8, 9, 10, 13}
          THEN /\ pc = "emit"
               /\ recovered_value = None
               /\ IterationCmds = <<>>
               /\ ExcitedFor(address) = 0
          ELSE /\ pc = "emit" => recovered_value # None
               /\ excited # <<>>
               /\ excited[Len(excited)] = <<address, vtor_address, exception_number>>
               /\ ExcitedFor(address) = 1
               /\ Cardinality({t \in DOMAIN IterationCmds :
                                  IsSend(IterationCmds[t], "step")}) = 1
               /\ pc = "emit" =>
                     /\ IsRead(IterationCmds[Len(IterationCmds) - 1], 15)
                     /\ IsRead(IterationCmds[Len(IterationCmds)], 16)
                     /\ Cardinality({t \in DOMAIN IterationCmds :
                                        IterationCmds[t].op = "read_register"}) = 2
    /\ (InExtraction /\ pc \in {"loop", "done"} /\ address > start_address
          /\ recovered_value = None) =>
          IF skip_value = SKIP
          THEN \A k \in DOMAIN output : output[k].address # address - 4
          ELSE /\ output # <<>>
               /\ output[Len(output)].address = address - 4
               /\ output[Len(output)].value = skip_value

\* An excited word and then an unavailable word have been written, the
\* second as the configured literal.
C13_Witness ==
    /\ pc = "done"
    /\ start_address = 24
    /\ Len(excited) = 1
    /\ Len(output) = 2
    /\ output[1].value = 257
    /\ output[2].address = 28
    /\ output[2].value = 195936478

\* C14: every word is written and flushed before a command for the next
\* address is sent: while the program works on an address, nothing is
\* left unflushed and the words of all earlier addresses are in the output.
C14_OutputBeforeNextProbe ==
    (InExtraction /\ pc \in {"loop", "dispatch", "recover", "emit", "crashed", "fatal"}) =>
        /\ stdout_buffer = <<>>
        /\ \A k \in DOMAIN output : output[k].address < address
        /\ skip_value # SKIP =>
              /\ Len(output) * 4 = address - start_address
              /\ \A k \in DOMAIN output : output[k].address = start_address + 4 * (k - 1)

\* The first word is in the output when the second word's exciter has run.
C14_Witness ==
    /\ pc = "recover"
    /\ address = start_address + 4
    /\ Len(output) = 1
    /\ output[1].address = start_address
    /\ IterationCmds # <<>>
    /\ Len(excited) = 2

(***************************************************************************)
(* Properties of the prober.                                               *)
(***************************************************************************)
\* The prober loop has been left: by its return, by an exception, or
\* because the program exited before it.
ProberOver == pc \notin {"connect", "setup", "probe"}

\* The line probed by the last iteration of the prober: the setup sends 6
\* commands and every iteration 8.
LastProbedLine == (iteration_start - 6) \div 8

\* The prober stays in its range and probes the lines in order.
ProberInRange ==
    /\ count \in 0..496
    /\ i = count
    /\ pc = "probe" => count < 496
    /\ pc = "probed" => (count = 496 \/ count \notin implemented)
    /\ (~InExtraction /\ pc \in {"probe", "probed", "crashed"} /\ Len(cmds) > 6) =>
          /\ (iteration_start - 6) % 8 = 0
          /\ Len(cmds) = iteration_start + 8
          /\ LastProbedLine <= 495
          /\ LastProbedLine = IF pc = "probe" THEN i - 1 ELSE i - (IF count = 496 THEN 1 ELSE 0)
          /\ IsWriteMemory(cmds[iteration_start + 2],
                           <<57344, 57600 + 4 * (LastProbedLine \div 32)>>,
                           Bit(LastProbedLine % 32))
    /\ InExtraction => (num_exceptions = 16 + count /\ num_exceptions \in 16..512)

\* C15: the prober terminates on every target: it probes the lines 0, 1,
\* 2, ... in order, stops at the first unconfirmed line or after line 495,
\* and returns a count in 0..496, so that N is in 16..512.
C15_ProberTerminatesInRange ==
    /\ []ProberInRange
    /\ <>ProberOver

\* Every line up to 495 confirmed: the prober returned 496 and N is 512.
C15_Witness ==
    /\ pc = "loop"
    /\ count = 496
    /\ num_exceptions = 512
    /\ implemented = 0..495

\* The command tokens the socket still holds.
TokensLeft ==
    Cardinality({k \in 1..Len(reply_left) : reply_left[k] = COMMAND_TOKEN})

\* send has returned: the reply of its command is consumed up to and
\* including the command token, and the result is the reply.
ReplyConsumed ==
    /\ reply_left = <<>>
    /\ sent > 0 =>
          /\ recv_data # <<>>
          /\ recv_data[Len(recv_data)] = COMMAND_TOKEN
          /\ \A k \in 1..(Len(recv_data) - 1) : recv_data[k] # COMMAND_TOKEN
          /\ send_result = StripLeft(SubSeq(recv_data, 1, Len(recv_data) - 1))

\* C16: the session is strictly request/response.  Whenever send is not
\* running, the reply of the last command has been read up to its command
\* token; a command is only ever sent when no reply is outstanding; at most
\* one reply is outstanding at any time, and send does not return before
\* the command token has been read.
C16_RequestResponse ==
    /\ [](send_pc = "idle" => ReplyConsumed)
    /\ [](TokensLeft <= 1)
    /\ [][sent' # sent => reply_left = <<>> /\ TokensLeft' = 1]_vars
    /\ [][send_pc = "recv" /\ send_pc' = "idle" =>
              TokensLeft = 1 /\ TokensLeft' = 0]_vars

\* A second command has been answered and send has read the whole reply and
\* returned it, stripped on the left.
C16_Witness ==
    /\ send_pc = "idle"
    /\ sent = 2
    /\ Len(recv_data) = MaxReplyLen + 1
    /\ send_result = <<48, 32>>
    /\ reply_left = <<>>

\* a | b for natural numbers
RECURSIVE BitOr(_, _)
BitOr(a, b) ==
    IF a = 0 THEN b
    ELSE IF b = 0 THEN a
    ELSE (IF a % 2 = 1 \/ b % 2 = 1 THEN 1 ELSE 0)
         + 2 * BitOr(a \div 2, b \div 2)

\* The wrap-around has been applied to the returned exception number.
WrapApplied == exception_number >= LargestPowerOfTwo(num_exceptions)

\* The returned pair decodes to the requested address.
DecodesToAddress ==
    LET T == LargestPowerOfTwo(num_exceptions)
    IN  /\ vtor_address + 4 * (exception_number % T) = address
        /\ WrapApplied => (vtor_address \div (T * 4)) % 2 = 1
        /\ WrapApplied => BitOr(vtor_address, exception_number * 4) = address

\* C17 as stated: for every address and N >= 16 the returned pair decodes
\* to the requested address: base + 4*(exc mod T) = address and, when the
\* wrap-around is applied, bit T*4 of base is set and
\* (base OR exc*4) = address.
C17_DecodesEveryAddress ==
    Mapped => DecodesToAddress

\* C17, amended: for every word-aligned address (a multiple of 4) and
\* N >= 16 the returned pair decodes to the requested address:
\* base + 4*(exc mod T) = address, (base OR exc*4) = address and, when the
\* wrap-around is applied, bit T*4 of base is set.  For an address that is
\* not a multiple of 4 the pair decodes to the word that holds the address.
C17_DecodesAlignedAddress ==
    /\ (Mapped /\ address % WORD_SIZE = 0) =>
          /\ DecodesToAddress
          /\ BitOr(vtor_address, exception_number * 4) = address
    /\ (Mapped /\ address % WORD_SIZE # 0) =>
          vtor_address + 4 * (exception_number % LargestPowerOfTwo(num_exceptions))
              = address - (address % WORD_SIZE)

\* A word-aligned address has been mapped with the wrap-around, on a table
\* of 32 entries whose base has bit 128 set.
C17_Witness ==
    /\ Mapped
    /\ address % WORD_SIZE = 0
    /\ LargestPowerOfTwo(num_exceptions) = 32
    /\ WrapApplied
    /\ (vtor_address \div 128) % 2 = 1
    /\ BitOr(vtor_address, exception_number * 4) = address

\* The exception count is an exact power of two.
PowerOfTwoCount == num_exceptions \in {16, 32, 64, 128, 256, 512}

\* C18: whenever N is an exact power of two the wrap-around is never
\* applied: the returned pair is the table-aligned base and the raw
\* exception number, the word index modulo N, and every address other
\* than 0x0 and 0x4 whose word index modulo N is in {0,1,7,8,9,10,13} is
\* unavailable: nothing is sent for it and no value is recovered.
C18_PowerOfTwoNeverWraps ==
    (InExtraction /\ PowerOfTwoCount) =>
        /\ pc \in {"dispatch", "recover", "emit", "crashed"} =>
              /\ vtor_address = address - (address % (num_exceptions * 4))
              /\ exception_number = (address \div 4) % num_exceptions
        /\ (/\ pc \in {"recover", "emit", "crashed"}
            /\ address \notin {0, 4}
            /\ ((address \div 4) % num_exceptions) \in {0, 1, 7, 8, 9, 10, 13}) =>
              /\ pc = "emit"
              /\ recovered_value = None
              /\ IterationCmds = <<>>
              /\ ExcitedFor(address) = 0

\* With 32 exceptions the word at 0x80, entry 0 of a table that is not
\* aligned to twice its size, has been found unavailable.
C18_Witness ==
    /\ pc = "emit"
    /\ num_exceptions = 32
    /\ address = 128
    /\ vtor_address = 128
    /\ exception_number = 0
    /\ recovered_value = None

====
